---- MODULE Spec2Model ----
(***************************************************************************)
(* Model of StaffAssignmentManager                                         *)
(* (src/workforce_management/staff_assignment/manager.py) and of the Staff *)
(* and Assignment records (staff_assignment/models.py).                    *)
(*                                                                         *)
(* A calendar date is a small integer.  A Python dict is a function whose  *)
(* DOMAIN is the dict's key set; a Python list is a sequence.  The         *)
(* day_name label of an Assignment is derived from the date, is never read *)
(* by the manager and is left out of the record.                           *)
(***************************************************************************)
EXTENDS Integers, Sequences, FiniteSets, TLC

(***************************************************************************)
(* Bounds                                                                  *)
(***************************************************************************)
MaxStaff == 2
MaxReq == 2
MaxDays == 2
MaxLoadCount == 1

Names == {"A", "B", "C"}
\* Two calendar dates; holidays fall on the first one only.
Dates == {1, 2}
HolidayDates == {1}
\* people_required is not validated: one negative value is kept among the inputs
Requirements == (0 - 1)..MaxReq
LoadCounts == 0..MaxLoadCount

Min(a, b) == IF a <= b THEN a ELSE b

Max(a, b) == IF a >= b THEN a ELSE b

(***************************************************************************)
(* Staff dataclass: name and holiday_dates (employee_id is never read by   *)
(* the manager).  The constructor takes any list of Staff.                 *)
(***************************************************************************)
StaffRecords == [name : Names, holiday_dates : SUBSET HolidayDates]

\* Names are opaque keys, so a staff list is taken up to renaming: the first
\* member is "A", and each member carries a name already used or the next
\* unused one.  Lists with repeated names are kept.
NameOrder == <<"A", "B", "C">>

DistinctBefore(sl, i) == Cardinality({sl[j].name : j \in 1..(i - 1)})

UpToRenaming(sl) ==
    \A i \in 1..Len(sl) :
        \E j \in 1..Min(DistinctBefore(sl, i) + 1, Len(NameOrder)) :
            sl[i].name = NameOrder[j]

StaffLists ==
    {sl \in UNION {[1..k -> StaffRecords] : k \in 0..MaxStaff} : UpToRenaming(sl)}

VARIABLES
    staff_list,                 \* self.staff_list
    staff_names,                \* self.staff_names
    staff_workdays,             \* self.staff_workdays (dict name -> int)
    staff_worked_yesterday,     \* self.staff_worked_yesterday (dict name -> bool)
    assignment_history,         \* self.assignment_history (list of Assignment)
    loaded_since_reset,         \* load_state was called after __init__/the last reset_state
    loaded_since_day,           \* load_state was called after the last processed day
    last_op,                    \* name of the method called last
    days_processed,             \* assign_staff_for_day calls since __init__/the last reset_state
    reset_dirty,                \* the last reset_state call found a history or a loaded state
    pc,                         \* "idle", or "assign_week" while that call is in its loop
    forecast_df,                \* assign_week: the rows of its argument
    week_assignments,           \* assign_week: its local list week_assignments
    week_result,                \* <<r>> when the last call was assign_week and returned r
    call_state,                 \* <<m>>, m the manager's fields when assign_week was called
    saved_state,                \* <<s>>, s the dict the last get_state call returned
    loaded_state,               \* <<s>> when the last call was load_state(s)
    days_kept,                  \* days processed since __init__ (counted in SpecSnapshot)
    forecast_columns,           \* assign_week: the columns of its argument
    raised,                     \* the exception the last assign_week call raised, or ""
    returned,                   \* <<r>> when the last call was a query and returned r
    staff_info,                 \* <<d>>, d the dict the last get_staff_info call returned
    live_views,                 \* the dicts a client holds that are the manager's own objects
    forecasting_engine,         \* api: the global forecasting_engine
    assignment_manager,         \* api: the global assignment_manager, "None" or "manager"
    coroutines,                 \* api: for each client, the handler of its request
    running                     \* api: the client whose handler the event loop runs, or 0

\* what the assign_week call keeps
week_vars == <<pc, forecast_df, week_assignments, week_result, call_state,
               forecast_columns, raised>>

\* what a client keeps of get_state and load_state
snapshot_vars == <<saved_state, loaded_state, days_kept>>

\* what a client keeps of the queries
client_vars == <<returned, staff_info, live_views>>

\* the globals of the API and its requests in flight
api_vars == <<forecasting_engine, assignment_manager, coroutines, running>>

vars == <<staff_list, staff_names, staff_workdays, staff_worked_yesterday,
          assignment_history, loaded_since_reset, loaded_since_day,
          last_op, days_processed, reset_dirty, week_vars, snapshot_vars,
          client_vars, api_vars>>

(***************************************************************************)
(* Helpers for Python lists and dicts                                      *)
(***************************************************************************)
\* set(lst)
Elems(lst) == {lst[i] : i \in 1..Len(lst)}

\* lst.count(x)
Count(x, lst) == Cardinality({i \in 1..Len(lst) : lst[i] = x})

\* lst[:k], with Python's meaning of a negative stop
Slice(lst, k) ==
    LET n == Len(lst)
        stop == IF k < 0 THEN Max(n + k, 0) ELSE Min(k, n)
    IN  SubSeq(lst, 1, stop)

\* an update that replaces the dict by its argument
DictUpdate_Replace(d, u) == u

\* an update that adds the new keys and leaves the values of the old ones
DictUpdate_KeepOld(d, u) ==
    [k \in (DOMAIN d) \cup (DOMAIN u) |-> IF k \in DOMAIN d THEN d[k] ELSE u[k]]

\* d.update(u)
DictUpdate(d, u) ==
    [k \in (DOMAIN d) \cup (DOMAIN u) |-> IF k \in DOMAIN u THEN u[k] ELSE d[k]]

\* an availability test that ignores the holidays
is_available_Always(staff, date) == TRUE

\* Staff.is_available
is_available(staff, date) == date \notin staff.holiday_dates

\* an insertion that puts a name after the names of equal workload it
\* preceded: the sort it gives is not stable
RECURSIVE InsertByWorkdays_Unstable(_, _, _)
InsertByWorkdays_Unstable(name, sorted, workdays) ==
    IF sorted = <<>> \/ workdays[name] < workdays[Head(sorted)]
    THEN <<name>> \o sorted
    ELSE <<Head(sorted)>> \o InsertByWorkdays_Unstable(name, Tail(sorted), workdays)

\* list.sort(key=lambda name: workdays[name]) : a stable sort, ascending.
RECURSIVE InsertByWorkdays(_, _, _)
InsertByWorkdays(name, sorted, workdays) ==
    IF sorted = <<>> \/ workdays[name] <= workdays[Head(sorted)]
    THEN <<name>> \o sorted
    ELSE <<Head(sorted)>> \o InsertByWorkdays(name, Tail(sorted), workdays)

RECURSIVE SortByWorkdays(_, _)
SortByWorkdays(lst, workdays) ==
    IF lst = <<>> THEN <<>>
    ELSE InsertByWorkdays(Head(lst), SortByWorkdays(Tail(lst), workdays), workdays)

(***************************************************************************)
(* StaffAssignmentManager                                                  *)
(***************************************************************************)
\* [staff.name for staff in staff_list]
StaffNamesOf(sl) == [i \in 1..Len(sl) |-> sl[i].name]

\* get_available_staff
RECURSIVE AvailableFrom(_, _)
AvailableFrom(sl, date) ==
    IF sl = <<>> THEN <<>>
    ELSE (IF is_available(Head(sl), date) THEN <<Head(sl).name>> ELSE <<>>)
         \o AvailableFrom(Tail(sl), date)

get_available_staff(date) == AvailableFrom(staff_list, date)

\* get_eligible_staff without the rest filter
get_eligible_staff_NoRest(available_staff) == available_staff

\* get_eligible_staff
get_eligible_staff(available_staff) ==
    SelectSeq(available_staff, LAMBDA name : ~staff_worked_yesterday[name])

\* Step 3: the eligible list ranked by workload
RankedEligible(available_staff) ==
    SortByWorkdays(get_eligible_staff(available_staff), staff_workdays)

\* the branch condition with "<" for "<="
NormalOperations_Strict(people_required, eligible_staff) ==
    people_required < Len(eligible_staff)

\* Step 4, the branch condition "people_required <= len(eligible_staff)"
NormalOperations(people_required, eligible_staff) ==
    people_required <= Len(eligible_staff)

\* an overtime branch that keeps drawing from the rested staff only
OvertimePool_RestedOnly(available_staff) ==
    SortByWorkdays(get_eligible_staff(available_staff), staff_workdays)

\* Step 4, overtime branch: available_staff.sort(key=workdays)
OvertimePool(available_staff) ==
    SortByWorkdays(available_staff, staff_workdays)

\* the shortage without the floor at zero
Shortage_NoFloor(people_required, available_staff) ==
    people_required - Len(available_staff)

\* max(0, people_required - len(available_staff))
Shortage(people_required, available_staff) ==
    Max(0, people_required - Len(available_staff))

\* Steps 1-5 of assign_staff_for_day: the Assignment that is built
MakeAssignment(date, people_required) ==
    LET available_staff == get_available_staff(date)
        eligible_staff == RankedEligible(available_staff)
        normal == NormalOperations(people_required, eligible_staff)
        assigned_staff ==
            IF normal
            THEN Slice(eligible_staff, people_required)
            ELSE Slice(OvertimePool(available_staff), people_required)
    IN  [date |-> date,
         people_required |-> people_required,
         assigned_staff |-> assigned_staff,
         assigned_count |-> Len(assigned_staff),
         overtime |-> ~normal,
         shortage |-> Shortage(people_required, available_staff)]

\* flags that are set for today's workers and never cleared for the others
UpdatedWorkedYesterday_Sticky(assigned_staff) ==
    [k \in (DOMAIN staff_worked_yesterday) \cup Elems(staff_names) |->
        IF k \in Elems(assigned_staff) THEN TRUE
        ELSE IF k \in DOMAIN staff_worked_yesterday THEN staff_worked_yesterday[k]
        ELSE FALSE]

\* _update_state: the flags after the loop over staff_names
UpdatedWorkedYesterday(assigned_staff) ==
    [k \in (DOMAIN staff_worked_yesterday) \cup Elems(staff_names) |->
        IF k \in Elems(staff_names) THEN k \in Elems(assigned_staff)
        ELSE staff_worked_yesterday[k]]

\* counters incremented for every registry name instead of the assigned ones
UpdatedWorkdays_Everyone(assigned_staff) ==
    [k \in DOMAIN staff_workdays |->
        staff_workdays[k] + (IF k \in Elems(staff_names) THEN 1 ELSE 0)]

\* _update_state: the counters after the loop over assigned_staff
UpdatedWorkdays(assigned_staff) ==
    [k \in DOMAIN staff_workdays |-> staff_workdays[k] + Count(k, assigned_staff)]

\* __init__ (which ends with reset_state)
__init__(staff) ==
    /\ staff_list = staff
    /\ staff_names = StaffNamesOf(staff_list)
    /\ staff_workdays = [n \in Elems(staff_names) |-> 0]
    /\ staff_worked_yesterday = [n \in Elems(staff_names) |-> FALSE]
    /\ assignment_history = <<>>
    /\ loaded_since_reset = FALSE
    /\ loaded_since_day = FALSE
    /\ last_op = "__init__"
    /\ days_processed = 0
    /\ reset_dirty = FALSE
    /\ pc = "idle"
    /\ forecast_df = <<>>
    /\ week_assignments = <<>>
    /\ week_result = <<>>
    /\ call_state = <<>>
    /\ saved_state = <<>>
    /\ loaded_state = <<>>
    /\ days_kept = 0
    /\ forecast_columns = {}
    /\ raised = ""
    /\ returned = <<>>
    /\ staff_info = <<>>
    /\ live_views = {}
    /\ forecasting_engine = "None"
    /\ assignment_manager = "manager"
    /\ coroutines = <<>>
    /\ running = 0

Init == \E staff \in StaffLists : __init__(staff)

\* a reset_state that leaves the workday counters as they are
reset_state_KeepCounters ==
    /\ staff_workdays' = staff_workdays
    /\ staff_worked_yesterday' = [n \in Elems(staff_names) |-> FALSE]
    /\ assignment_history' = <<>>
    /\ loaded_since_reset' = FALSE
    /\ loaded_since_day' = FALSE
    /\ UNCHANGED <<staff_list, staff_names>>

\* a reset_state that leaves the worked-yesterday flags as they are
reset_state_KeepFlags ==
    /\ staff_workdays' = [n \in Elems(staff_names) |-> 0]
    /\ staff_worked_yesterday' = staff_worked_yesterday
    /\ assignment_history' = <<>>
    /\ loaded_since_reset' = FALSE
    /\ loaded_since_day' = FALSE
    /\ UNCHANGED <<staff_list, staff_names>>

\* reset_state
reset_state ==
    /\ staff_workdays' = [n \in Elems(staff_names) |-> 0]
    /\ staff_worked_yesterday' = [n \in Elems(staff_names) |-> FALSE]
    /\ assignment_history' = <<>>
    /\ loaded_since_reset' = FALSE
    /\ loaded_since_day' = FALSE
    /\ UNCHANGED <<staff_list, staff_names>>

\* load_state(state): a dict in which each of the two keys may be absent
\* (has_* = FALSE).  The dicts tried carry one entry, for any name: the
\* empty dict, one workday count, or one worked-yesterday flag.  A run
\* (from __init__ or reset_state to the next reset_state) is followed with
\* at most one load_state call, placed anywhere in it.
PartialDicts(values) ==
    {<<>>} \cup {n :> v : n \in Names, v \in values}

LoadStates ==
    {s \in [has_staff_workdays : BOOLEAN,
            staff_workdays : PartialDicts(LoadCounts),
            has_staff_worked_yesterday : BOOLEAN,
            staff_worked_yesterday : PartialDicts(BOOLEAN)] :
        /\ s.has_staff_workdays = (s.staff_workdays # <<>>)
        /\ s.has_staff_worked_yesterday = (s.staff_worked_yesterday # <<>>)
        /\ ~(s.has_staff_workdays /\ s.has_staff_worked_yesterday)}

load_state(state) ==
    /\ loaded_since_reset = FALSE
    /\ staff_workdays' =
          IF state.has_staff_workdays
          THEN DictUpdate(staff_workdays, state.staff_workdays)
          ELSE staff_workdays
    /\ staff_worked_yesterday' =
          IF state.has_staff_worked_yesterday
          THEN DictUpdate(staff_worked_yesterday, state.staff_worked_yesterday)
          ELSE staff_worked_yesterday
    /\ loaded_since_reset' = TRUE
    /\ loaded_since_day' = TRUE
    /\ UNCHANGED <<staff_list, staff_names, assignment_history>>

\* assign_staff_for_day putting the new Assignment at the head of the history
assign_staff_for_day_Prepend(date, people_required) ==
    /\ LET assignment == MakeAssignment(date, people_required)
       IN  /\ staff_worked_yesterday' = UpdatedWorkedYesterday(assignment.assigned_staff)
           /\ staff_workdays' = UpdatedWorkdays(assignment.assigned_staff)
           /\ assignment_history' = <<assignment>> \o assignment_history
    /\ loaded_since_day' = FALSE
    /\ UNCHANGED <<staff_list, staff_names, loaded_since_reset>>

\* assign_staff_for_day(date, people_required)
assign_staff_for_day(date, people_required) ==
    /\ LET assignment == MakeAssignment(date, people_required)
       IN  /\ staff_worked_yesterday' = UpdatedWorkedYesterday(assignment.assigned_staff)
           /\ staff_workdays' = UpdatedWorkdays(assignment.assigned_staff)
           /\ assignment_history' = Append(assignment_history, assignment)
    /\ loaded_since_day' = FALSE
    /\ UNCHANGED <<staff_list, staff_names, loaded_since_reset>>

\* The calls a client makes, one at a time.  A run is followed for MaxDays
\* processed days.
AssignDay ==
    \E date \in Dates, people_required \in Requirements :
        /\ Len(assignment_history) < MaxDays
        /\ assign_staff_for_day(date, people_required)
        /\ last_op' = "assign_staff_for_day"
        /\ days_processed' = days_processed + 1
        /\ UNCHANGED <<reset_dirty, week_vars, snapshot_vars, client_vars, api_vars>>

LoadState ==
    \E state \in LoadStates :
        /\ load_state(state)
        /\ last_op' = "load_state"
        /\ UNCHANGED <<days_processed, reset_dirty, week_vars, snapshot_vars, client_vars, api_vars>>

ResetState ==
    /\ reset_state
    /\ last_op' = "reset_state"
    /\ days_processed' = 0
    /\ UNCHANGED <<reset_dirty, week_vars, snapshot_vars, client_vars, api_vars>>

Next == AssignDay \/ LoadState \/ ResetState

Spec == Init /\ [][Next]_vars

(***************************************************************************)
(* Replay.  The calls of Spec, with reset_dirty recording whether the last *)
(* reset_state call found a used manager (a history or a loaded state).    *)
(* load_state calls are followed until such a reset_state; the days        *)
(* processed after it are the replay.                                      *)
(***************************************************************************)
LoadFirst ==
    \E state \in LoadStates :
        /\ reset_dirty = FALSE
        /\ load_state(state)
        /\ last_op' = "load_state"
        /\ UNCHANGED <<days_processed, reset_dirty, week_vars, snapshot_vars, client_vars, api_vars>>

ResetUsed ==
    /\ reset_state
    /\ last_op' = "reset_state"
    /\ days_processed' = 0
    /\ reset_dirty' = (assignment_history # <<>> \/ loaded_since_reset)
    /\ UNCHANGED <<week_vars, snapshot_vars, client_vars, api_vars>>

NextReplay == AssignDay \/ LoadFirst \/ ResetUsed

SpecReplay == Init /\ [][NextReplay]_vars

(***************************************************************************)
(* Reference scenario: the registry [A, B, C], A on holiday on date 3, and *)
(* three days processed from the fresh state, with any requests.           *)
(***************************************************************************)
ScenarioStaff ==
    <<[name |-> "A", holiday_dates |-> {3}],
      [name |-> "B", holiday_dates |-> {}],
      [name |-> "C", holiday_dates |-> {}]>>

ScenarioDates == {1, 2, 3}

InitScenario == __init__(ScenarioStaff)

AssignScenarioDay ==
    \E date \in ScenarioDates, people_required \in Requirements :
        /\ Len(assignment_history) < Cardinality(ScenarioDates)
        /\ assign_staff_for_day(date, people_required)
        /\ last_op' = "assign_staff_for_day"
        /\ days_processed' = days_processed + 1
        /\ UNCHANGED <<reset_dirty, week_vars, snapshot_vars, client_vars, api_vars>>

NextScenario == AssignScenarioDay

SpecScenario == InitScenario /\ [][NextScenario]_vars

(***************************************************************************)
(* assign_week.  Its argument is the list of the rows of forecast_df, each *)
(* with the columns date and people_required.  The call is followed row by *)
(* row; no other call is made while it runs.  Once another call is made,   *)
(* nothing is kept of the last assign_week call.                           *)
(***************************************************************************)
ForecastRows == [date : Dates, people_required : Requirements]

\* a forecast has up to two rows
WeekLengths == {0, 1, 2}

ForecastFrames(k) == [1..k -> ForecastRows]

\* the manager's fields that calls change
ManagerFields ==
    [staff_workdays |-> staff_workdays,
     staff_worked_yesterday |-> staff_worked_yesterday,
     assignment_history |-> assignment_history]

\* required_cols = ['date', 'people_required']
required_cols == {"date", "people_required"}

\* a validation that looks for the date column only
missing_cols_DateOnly(columns) == {"date"} \ columns

\* missing_cols = [col for col in required_cols if col not in forecast_df.columns]
missing_cols(columns) == required_cols \ columns

\* entry of assign_week on a DataFrame with these columns and rows: the
\* validation of the columns, then week_assignments = []
assign_week_call(columns, df) ==
    /\ pc = "idle"
    /\ Len(assignment_history) + Len(df) <= MaxDays
    /\ forecast_columns' = columns
    /\ forecast_df' = df
    /\ IF missing_cols(columns) # {}
       THEN /\ raised' = "ValueError"
            /\ pc' = "idle"
       ELSE /\ raised' = ""
            /\ pc' = "assign_week"
    /\ week_assignments' = <<>>
    /\ week_result' = <<>>
    /\ call_state' = <<ManagerFields>>
    /\ last_op' = "assign_week"
    /\ UNCHANGED <<staff_list, staff_names, staff_workdays, staff_worked_yesterday,
                   assignment_history, loaded_since_reset, loaded_since_day,
                   days_processed, reset_dirty, snapshot_vars, client_vars, api_vars>>

\* the loop taking the rows from the last one to the first
NextRow_Reversed == forecast_df[Len(forecast_df) - Len(week_assignments)]

\* for _, day_forecast in forecast_df.iterrows(): the row of this iteration
NextRow == forecast_df[Len(week_assignments) + 1]

\* one iteration: assign_staff_for_day on the row, its result appended
assign_week_row ==
    /\ pc = "assign_week"
    /\ Len(week_assignments) < Len(forecast_df)
    /\ assign_staff_for_day(NextRow.date, NextRow.people_required)
    /\ week_assignments' =
          Append(week_assignments, MakeAssignment(NextRow.date, NextRow.people_required))
    /\ last_op' = "assign_staff_for_day"
    /\ days_processed' = days_processed + 1
    /\ UNCHANGED <<pc, forecast_df, week_result, call_state, forecast_columns,
                   raised, reset_dirty, snapshot_vars, client_vars, api_vars>>

\* Assignment.is_fully_staffed
is_fully_staffed(a) == a.shortage = 0

\* a float that is a quotient of integers, kept as the exact fraction
Ratio(n, d) == IF d > 0 THEN [num |-> n, den |-> d] ELSE [num |-> 0 - n, den |-> 0 - d]

\* the float 100.0
Hundred == [num |-> 100, den |-> 1]

\* Assignment.coverage_percentage
coverage_percentage(a) ==
    IF a.people_required = 0
    THEN Hundred
    ELSE Ratio(a.assigned_count * 100, a.people_required)

\* sum(...) over a list of integers
RECURSIVE Sum(_)
Sum(ints) == IF ints = <<>> THEN 0 ELSE Head(ints) + Sum(Tail(ints))

\* sum(...) over a list of floats
RECURSIVE SumOfRatios(_)
SumOfRatios(ratios) ==
    IF ratios = <<>>
    THEN [num |-> 0, den |-> 1]
    ELSE LET rest == SumOfRatios(Tail(ratios))
             first == Head(ratios)
         IN  [num |-> first.num * rest.den + rest.num * first.den,
              den |-> first.den * rest.den]

\* (total_assigned / total_demand * 100) if total_demand > 0 else 100.0
assignment_rate(total_assigned, total_demand) ==
    IF total_demand > 0 THEN Ratio(total_assigned * 100, total_demand) ELSE Hundred

\* _generate_summary_stats
_generate_summary_stats(assignments) ==
    LET n == Len(assignments)
        total_demand == Sum([i \in 1..n |-> assignments[i].people_required])
        total_assigned == Sum([i \in 1..n |-> assignments[i].assigned_count])
        coverage == SumOfRatios([i \in 1..n |-> coverage_percentage(assignments[i])])
    IN  [total_assignments |-> n,
         total_demand |-> total_demand,
         total_assigned |-> total_assigned,
         assignment_rate |-> assignment_rate(total_assigned, total_demand),
         overtime_days |-> Sum([i \in 1..n |-> IF assignments[i].overtime THEN 1 ELSE 0]),
         total_shortage |-> Sum([i \in 1..n |-> assignments[i].shortage]),
         average_coverage |->
            IF n > 0 THEN [num |-> coverage.num, den |-> coverage.den * n] ELSE Hundred]

\* workload_balance=self.staff_workdays.copy(): the dict of the result is a
\* new object, not the manager's
workload_balance_views == {}

\* return AssignmentResult(assignments, summary_stats, workload_balance)
assign_week_return ==
    /\ pc = "assign_week"
    /\ Len(week_assignments) = Len(forecast_df)
    /\ week_result' = <<[assignments |-> week_assignments,
                          summary_stats |-> _generate_summary_stats(week_assignments),
                          workload_balance |-> staff_workdays]>>
    /\ live_views' = (live_views \ {"week_result.workload_balance"})
                        \cup workload_balance_views
    /\ pc' = "idle"
    /\ last_op' = "assign_week"
    /\ UNCHANGED <<staff_list, staff_names, staff_workdays, staff_worked_yesterday,
                   assignment_history, loaded_since_reset, loaded_since_day,
                   days_processed, reset_dirty, forecast_df, week_assignments,
                   call_state, forecast_columns, raised, snapshot_vars,
                   returned, staff_info, api_vars>>

\* a call of another method: nothing of assign_week remains
WeekForgotten ==
    /\ pc = "idle"
    /\ pc' = "idle"
    /\ forecast_df' = <<>>
    /\ week_assignments' = <<>>
    /\ week_result' = <<>>
    /\ call_state' = <<>>
    /\ forecast_columns' = {}
    /\ raised' = ""

AssignWeek ==
    \E k \in WeekLengths :
        /\ pc = "idle"
        /\ Len(assignment_history) + k <= MaxDays
        /\ \E df \in ForecastFrames(k) : assign_week_call(required_cols, df)

\* the columns a DataFrame may have
Columns == {"date", "people_required", "day_name"}

\* k rows of a DataFrame with these columns
BlankFrame(columns, k) == [r \in 1..k |-> [c \in columns |-> 1]]

\* assign_week on a DataFrame that lacks a required column
AssignWeekMissing ==
    \E k \in WeekLengths, columns \in SUBSET Columns :
        /\ pc = "idle"
        /\ Len(assignment_history) + k <= MaxDays
        /\ ~(required_cols \subseteq columns)
        /\ assign_week_call(columns, BlankFrame(columns, k))

AssignWeekRow == assign_week_row

AssignWeekReturn == assign_week_return

AssignDayAlone ==
    \E date \in Dates, people_required \in Requirements :
        /\ Len(assignment_history) < MaxDays
        /\ WeekForgotten
        /\ assign_staff_for_day(date, people_required)
        /\ last_op' = "assign_staff_for_day"
        /\ days_processed' = days_processed + 1
        /\ UNCHANGED <<reset_dirty, snapshot_vars, client_vars, api_vars>>

ResetBetween ==
    /\ reset_state
    /\ last_op' = "reset_state"
    /\ days_processed' = 0
    /\ WeekForgotten
    /\ UNCHANGED <<reset_dirty, snapshot_vars, client_vars, api_vars>>

NextWeek ==
    \/ AssignWeek
    \/ AssignWeekMissing
    \/ AssignWeekRow
    \/ AssignWeekReturn
    \/ AssignDayAlone
    \/ ResetBetween

SpecWeek == Init /\ [][NextWeek]_vars

(***************************************************************************)
(* Snapshots.  get_state returns a dict with both keys; the client calls   *)
(* it once and keeps the dict; load_state is called with any dict of       *)
(* LoadStates before that, and with the dict kept after it.  loaded_state  *)
(* is the argument of the load_state call when that call is the last one   *)
(* made.  MaxDays days are processed in all, over any number of runs, and  *)
(* a run ends with its load_state call.                                    *)
(***************************************************************************)
\* get_state: copies of the two dicts
get_state ==
    [has_staff_workdays |-> TRUE,
     staff_workdays |-> staff_workdays,
     has_staff_worked_yesterday |-> TRUE,
     staff_worked_yesterday |-> staff_worked_yesterday]

GetState ==
    /\ saved_state = <<>>
    /\ saved_state' = <<get_state>>
    /\ loaded_state' = <<>>
    /\ last_op' = "get_state"
    /\ UNCHANGED <<staff_list, staff_names, staff_workdays, staff_worked_yesterday,
                   assignment_history, loaded_since_reset, loaded_since_day,
                   days_processed, reset_dirty, week_vars, days_kept, client_vars, api_vars>>

LoadGiven(state) ==
    /\ load_state(state)
    /\ loaded_state' = <<state>>
    /\ last_op' = "load_state"
    /\ UNCHANGED <<days_processed, reset_dirty, week_vars, saved_state, days_kept, client_vars, api_vars>>

LoadSaved ==
    /\ saved_state # <<>>
    /\ LoadGiven(saved_state[1])

LoadPartial ==
    \E state \in LoadStates :
        /\ saved_state = <<>>
        /\ LoadGiven(state)

AssignDayKept ==
    \E date \in Dates, people_required \in Requirements :
        /\ days_kept < MaxDays
        /\ loaded_since_reset = FALSE
        /\ assign_staff_for_day(date, people_required)
        /\ last_op' = "assign_staff_for_day"
        /\ days_processed' = days_processed + 1
        /\ loaded_state' = <<>>
        /\ days_kept' = days_kept + 1
        /\ UNCHANGED <<reset_dirty, week_vars, saved_state, client_vars, api_vars>>

ResetKept ==
    /\ reset_state
    /\ last_op' = "reset_state"
    /\ days_processed' = 0
    /\ loaded_state' = <<>>
    /\ UNCHANGED <<reset_dirty, week_vars, saved_state, days_kept, client_vars, api_vars>>

NextSnapshot == GetState \/ LoadSaved \/ LoadPartial \/ AssignDayKept \/ ResetKept

SpecSnapshot == Init /\ [][NextSnapshot]_vars

(***************************************************************************)
(* Queries.  A client calls a query between two other calls and keeps what *)
(* it returned until it drops it; the calls that change the manager are    *)
(* made once the returned value is dropped.                                *)
(***************************************************************************)
\* get_staff_info
get_staff_info ==
    [total_staff |-> Len(staff_list),
     staff_names |-> staff_names,
     current_workload |-> staff_workdays,
     worked_yesterday |-> staff_worked_yesterday,
     total_assignments_made |-> Len(assignment_history)]

\* get_holiday_conflicts, the inner loop: on_holiday for one date
RECURSIVE OnHolidayFrom(_, _)
OnHolidayFrom(sl, date) ==
    IF sl = <<>> THEN <<>>
    ELSE IF ~is_available(Head(sl), date)
         THEN <<Head(sl).name>> \o OnHolidayFrom(Tail(sl), date)
         ELSE OnHolidayFrom(Tail(sl), date)

\* conflicts that get a key for every date of the range
get_holiday_conflicts_EveryDate(date_range) ==
    [date \in Elems(date_range) |-> OnHolidayFrom(staff_list, date)]

\* get_holiday_conflicts(date_range): the dict conflicts
get_holiday_conflicts(date_range) ==
    [date \in {d \in Elems(date_range) : OnHolidayFrom(staff_list, d) # <<>>} |->
        OnHolidayFrom(staff_list, date)]

\* a date_range has up to two dates
RangeLengths == {0, 1, 2}

DateRanges == UNION {[1..k -> Dates] : k \in RangeLengths}

\* a query that clears the worked-yesterday flags it has read
Query_Clearing(op, args, value) ==
    /\ pc = "idle"
    /\ returned = <<>>
    /\ returned' = <<[op |-> op, args |-> args, value |-> value]>>
    /\ last_op' = op
    /\ WeekForgotten
    /\ staff_worked_yesterday' = [k \in DOMAIN staff_worked_yesterday |-> FALSE]
    /\ UNCHANGED <<staff_list, staff_names, staff_workdays,
                   assignment_history, loaded_since_reset, loaded_since_day,
                   days_processed, reset_dirty, snapshot_vars, staff_info,
                   live_views, api_vars>>

\* a query: the call returns value and writes no field of the manager
Query(op, args, value) ==
    /\ pc = "idle"
    /\ returned = <<>>
    /\ returned' = <<[op |-> op, args |-> args, value |-> value]>>
    /\ last_op' = op
    /\ WeekForgotten
    /\ UNCHANGED <<staff_list, staff_names, staff_workdays, staff_worked_yesterday,
                   assignment_history, loaded_since_reset, loaded_since_day,
                   days_processed, reset_dirty, snapshot_vars, staff_info,
                   live_views, api_vars>>

GetAvailableStaff ==
    \E date \in Dates :
        Query("get_available_staff", date, get_available_staff(date))

GetEligibleStaff ==
    \E date \in Dates :
        Query("get_eligible_staff", get_available_staff(date),
              get_eligible_staff(get_available_staff(date)))

GetStateQuery == Query("get_state", <<>>, get_state)

GetStaffInfo == Query("get_staff_info", <<>>, get_staff_info)

GetHolidayConflicts ==
    \E date_range \in DateRanges :
        Query("get_holiday_conflicts", date_range, get_holiday_conflicts(date_range))

\* the client drops the returned value
Dropped ==
    /\ returned # <<>>
    /\ returned' = <<>>
    /\ UNCHANGED <<staff_list, staff_names, staff_workdays, staff_worked_yesterday,
                   assignment_history, loaded_since_reset, loaded_since_day,
                   last_op, days_processed, reset_dirty, week_vars, snapshot_vars,
                   staff_info, live_views, api_vars>>

\* the days a run with queries is followed for
QueriedDays == Cardinality(Dates)

AssignDayQueried ==
    \E date \in Dates, people_required \in Requirements :
        /\ returned = <<>>
        /\ Len(assignment_history) < QueriedDays
        /\ WeekForgotten
        /\ assign_staff_for_day(date, people_required)
        /\ last_op' = "assign_staff_for_day"
        /\ days_processed' = days_processed + 1
        /\ UNCHANGED <<reset_dirty, snapshot_vars, client_vars, api_vars>>

ResetQueried == returned = <<>> /\ ResetBetween

AssignWeekQueried ==
    \E k \in WeekLengths :
        /\ returned = <<>>
        /\ pc = "idle"
        /\ Len(assignment_history) + k <= QueriedDays
        /\ \E df \in ForecastFrames(k) : assign_week_call(required_cols, df)

LoadQueried ==
    \E state \in LoadStates :
        /\ returned = <<>>
        /\ days_processed = 0
        /\ load_state(state)
        /\ last_op' = "load_state"
        /\ WeekForgotten
        /\ UNCHANGED <<days_processed, reset_dirty, snapshot_vars, client_vars, api_vars>>

NextQuery ==
    \/ GetAvailableStaff
    \/ GetEligibleStaff
    \/ GetStateQuery
    \/ GetStaffInfo
    \/ GetHolidayConflicts
    \/ Dropped
    \/ AssignDayQueried
    \/ ResetQueried
    \/ LoadQueried
    \/ AssignWeekQueried
    \/ AssignWeekRow
    \/ AssignWeekReturn

SpecQuery == Init /\ [][NextQuery]_vars

(***************************************************************************)
(* Values handed out.  The client keeps the dict get_state returned, the   *)
(* dict get_staff_info returned and the result of assign_week while later  *)
(* calls are made.  A dict the client holds is either an object of its own *)
(* (a copy) or the manager's own dict object; live_views names the held    *)
(* dicts that are the manager's own.  What the client reads in such a dict *)
(* is what the manager's dict holds.  reset_state binds the manager's      *)
(* fields to new dicts: a dict the client holds then stays as it was.      *)
(* A run is followed until its reset; one of get_state and get_staff_info  *)
(* is called in a run, and assign_week is called before any other day.     *)
(***************************************************************************)
\* get_state with the manager's own dicts in the dict it returns
get_state_views_Own ==
    {"saved_state.staff_workdays", "saved_state.staff_worked_yesterday"}

\* get_state: 'staff_workdays': self.staff_workdays.copy(),
\* 'staff_worked_yesterday': self.staff_worked_yesterday.copy()
get_state_views == {}

\* get_staff_info: 'current_workload': self.staff_workdays,
\* 'worked_yesterday': self.staff_worked_yesterday
get_staff_info_views == {"staff_info.current_workload", "staff_info.worked_yesterday"}

\* what the client reads in a held dict: stored is its content when it was
\* handed out or detached, own the manager's dict
View(place, stored, own) == IF place \in live_views THEN own ELSE stored

\* the dict get_state returned, as the client reads it now
SeenState ==
    [staff_workdays |->
        View("saved_state.staff_workdays", saved_state[1].staff_workdays, staff_workdays),
     staff_worked_yesterday |->
        View("saved_state.staff_worked_yesterday", saved_state[1].staff_worked_yesterday,
             staff_worked_yesterday)]

\* the dict get_staff_info returned, as the client reads it now
SeenInfo ==
    [current_workload |->
        View("staff_info.current_workload", staff_info[1].current_workload, staff_workdays),
     worked_yesterday |->
        View("staff_info.worked_yesterday", staff_info[1].worked_yesterday,
             staff_worked_yesterday),
     total_assignments_made |-> staff_info[1].total_assignments_made]

\* workload_balance of the result of assign_week, as the client reads it now
SeenBalance ==
    View("week_result.workload_balance", week_result[1].workload_balance, staff_workdays)

HandState ==
    /\ pc = "idle"
    /\ saved_state = <<>>
    /\ staff_info = <<>>
    /\ saved_state' = <<get_state>>
    /\ live_views' = live_views \cup get_state_views
    /\ last_op' = "get_state"
    /\ UNCHANGED <<staff_list, staff_names, staff_workdays, staff_worked_yesterday,
                   assignment_history, loaded_since_reset, loaded_since_day,
                   days_processed, reset_dirty, week_vars, loaded_state, days_kept,
                   returned, staff_info, api_vars>>

HandInfo ==
    /\ pc = "idle"
    /\ saved_state = <<>>
    /\ staff_info = <<>>
    /\ staff_info' = <<get_staff_info>>
    /\ live_views' = live_views \cup get_staff_info_views
    /\ last_op' = "get_staff_info"
    /\ UNCHANGED <<staff_list, staff_names, staff_workdays, staff_worked_yesterday,
                   assignment_history, loaded_since_reset, loaded_since_day,
                   days_processed, reset_dirty, week_vars, snapshot_vars, returned, api_vars>>

HandDay == pc = "idle" /\ reset_dirty = FALSE /\ AssignDay

HandWeek == reset_dirty = FALSE /\ assignment_history = <<>> /\ AssignWeek

\* reset_state while the client holds dicts: the manager's fields are new
\* objects, the held dicts keep what they hold
HandReset ==
    /\ pc = "idle"
    /\ reset_dirty = FALSE
    /\ reset_state
    /\ last_op' = "reset_state"
    /\ days_processed' = 0
    /\ reset_dirty' = TRUE
    /\ saved_state' = IF saved_state = <<>> THEN <<>>
                      ELSE <<[saved_state[1] EXCEPT
                                !.staff_workdays = SeenState.staff_workdays,
                                !.staff_worked_yesterday = SeenState.staff_worked_yesterday]>>
    /\ staff_info' = IF staff_info = <<>> THEN <<>>
                     ELSE <<[staff_info[1] EXCEPT
                                !.current_workload = SeenInfo.current_workload,
                                !.worked_yesterday = SeenInfo.worked_yesterday]>>
    /\ week_result' = IF week_result = <<>> THEN <<>>
                      ELSE <<[week_result[1] EXCEPT !.workload_balance = SeenBalance]>>
    /\ live_views' = {}
    /\ UNCHANGED <<pc, forecast_df, week_assignments, call_state, forecast_columns,
                   raised, loaded_state, days_kept, returned, api_vars>>

NextHandout ==
    \/ HandState
    \/ HandInfo
    \/ HandDay
    \/ HandWeek
    \/ AssignWeekRow
    \/ AssignWeekReturn
    \/ HandReset

SpecHandout == Init /\ [][NextHandout]_vars

(***************************************************************************)
(* The API.  Its globals are forecasting_engine and assignment_manager;    *)
(* the fields of the manager are those of the global assignment_manager.   *)
(* Each client has at most one request in flight.  The handlers are        *)
(* coroutines of one event loop: the loop runs a handler until it awaits   *)
(* or returns, and only then starts or resumes another one.  A handler is  *)
(* followed statement by statement; the day of assign_staff_for_day is     *)
(* followed as its read (steps 1-5), the two loops of _update_state and    *)
(* the append to the history.  The rows a forecast returns are any rows.   *)
(***************************************************************************)
Clients == {1, 2}

\* the days a run of the API is followed for
ApiDays == Cardinality(Dates)

\* ForecastingEngine.SUPPORTED_METHODS, and a method that is not one of them
SUPPORTED_METHODS ==
    {"last_week_pattern", "moving_average", "seasonal_moving_average",
     "day_of_week_average", "simple_average"}

Methods == {"last_week_pattern", "unknown"}

\* no request in flight
Idle ==
    [endpoint |-> "", at |-> "idle", status |-> "", input |-> <<>>, df |-> <<>>,
     week_assignments |-> <<>>, decided |-> <<>>]

\* a scheduler that may switch to another handler after any statement
Yields_Anywhere(at) == TRUE

\* the handler gives the event loop back where it awaits and where it returns
Yields(at) == at \in {"await_read", "done"}

\* the handler of client c may run its next statement
Turn(c, at) ==
    /\ coroutines[c].at = at
    /\ running \in {0, c}
    /\ \A o \in Clients : coroutines[o].at # "done"

\* the handler of client c goes on as co
Goes(c, co) ==
    /\ coroutines' = [coroutines EXCEPT ![c] = co]
    /\ running' = IF Yields(co.at) THEN 0 ELSE c

\* the handler of client c returns or raises HTTPException
Done(c, endpoint, status) ==
    Goes(c, [Idle EXCEPT !.endpoint = endpoint, !.at = "done", !.status = status])

\* what no handler touches
api_frame ==
    <<loaded_since_reset, loaded_since_day, last_op, days_processed, reset_dirty,
      week_vars, snapshot_vars, client_vars>>

manager_fields ==
    <<staff_list, staff_names, staff_workdays, staff_worked_yesterday,
      assignment_history>>

\* the module is imported: both globals are None
InitApi ==
    /\ forecasting_engine = "None"
    /\ assignment_manager = "None"
    /\ coroutines = [c \in Clients |-> Idle]
    /\ running = 0
    /\ staff_list = <<>>
    /\ staff_names = <<>>
    /\ staff_workdays = <<>>
    /\ staff_worked_yesterday = <<>>
    /\ assignment_history = <<>>
    /\ loaded_since_reset = FALSE
    /\ loaded_since_day = FALSE
    /\ last_op = ""
    /\ days_processed = 0
    /\ reset_dirty = FALSE
    /\ pc = "idle"
    /\ forecast_df = <<>>
    /\ week_assignments = <<>>
    /\ week_result = <<>>
    /\ call_state = <<>>
    /\ forecast_columns = {}
    /\ raised = ""
    /\ saved_state = <<>>
    /\ loaded_state = <<>>
    /\ days_kept = 0
    /\ returned = <<>>
    /\ staff_info = <<>>
    /\ live_views = {}

\* the response is sent
Respond ==
    \E c \in Clients :
        /\ coroutines[c].at = "done"
        /\ coroutines' = [coroutines EXCEPT ![c] = Idle]
        /\ running' = 0
        /\ UNCHANGED <<forecasting_engine, assignment_manager, manager_fields, api_frame>>

\* POST /data/load-historical, up to await file.read(); csv is whether the
\* file name ends with .csv
RequestLoadHistorical ==
    \E c \in Clients, csv \in BOOLEAN :
        /\ Turn(c, "idle")
        /\ IF csv
           THEN Goes(c, [Idle EXCEPT !.endpoint = "load-historical", !.at = "await_read"])
           ELSE Done(c, "load-historical", "400")
        /\ UNCHANGED <<forecasting_engine, assignment_manager, manager_fields, api_frame>>

\* POST /data/load-historical, after await file.read().  The file cannot be
\* parsed or lacks a column ("refused"), or the engine is created and
\* load_historical_data raises on it ("unreadable") or succeeds ("ok").
HistoricalFiles == {"refused", "unreadable", "ok"}

HistoricalRead ==
    \E c \in Clients, file \in HistoricalFiles :
        /\ Turn(c, "await_read")
        /\ coroutines[c].endpoint = "load-historical"
        /\ forecasting_engine' =
              CASE file = "refused" -> forecasting_engine
                [] file = "unreadable" -> "empty"
                [] file = "ok" -> "loaded"
        /\ Done(c, "load-historical", IF file = "ok" THEN "200" ELSE "400")
        /\ UNCHANGED <<assignment_manager, manager_fields, api_frame>>

\* POST /staff/load, up to await file.read()
RequestLoadStaff ==
    \E c \in Clients, csv \in BOOLEAN :
        /\ Turn(c, "idle")
        /\ IF csv
           THEN Goes(c, [Idle EXCEPT !.endpoint = "load-staff", !.at = "await_read"])
           ELSE Done(c, "load-staff", "400")
        /\ UNCHANGED <<forecasting_engine, assignment_manager, manager_fields, api_frame>>

\* POST /staff/load, after await file.read(): the file is refused
StaffRefused ==
    \E c \in Clients :
        /\ Turn(c, "await_read")
        /\ coroutines[c].endpoint = "load-staff"
        /\ Done(c, "load-staff", "400")
        /\ UNCHANGED <<forecasting_engine, assignment_manager, manager_fields, api_frame>>

\* POST /staff/load, after await file.read(): the staff of the file make a
\* new manager
StaffRead ==
    \E c \in Clients, staff \in StaffLists :
        /\ Turn(c, "await_read")
        /\ coroutines[c].endpoint = "load-staff"
        /\ assignment_manager' = "manager"
        /\ staff_list' = staff
        /\ staff_names' = StaffNamesOf(staff)
        /\ staff_workdays' = [n \in Elems(StaffNamesOf(staff)) |-> 0]
        /\ staff_worked_yesterday' = [n \in Elems(StaffNamesOf(staff)) |-> FALSE]
        /\ assignment_history' = <<>>
        /\ Done(c, "load-staff", "200")
        /\ UNCHANGED <<forecasting_engine, api_frame>>

\* forecast raising on every engine but checking the method only
ForecastRaises_MethodOnly(method) == method \notin SUPPORTED_METHODS

\* forecasting_engine.forecast raises: no historical data, or a method that
\* is not supported
ForecastRaises(method) ==
    \/ forecasting_engine # "loaded"
    \/ method \notin SUPPORTED_METHODS

\* POST /assignments/generate: the two checks of the globals
RequestGenerate ==
    \E c \in Clients, method \in Methods :
        /\ Turn(c, "idle")
        /\ IF forecasting_engine = "None" \/ assignment_manager = "None"
           THEN Done(c, "generate", "400")
           ELSE Goes(c, [Idle EXCEPT !.endpoint = "generate", !.at = "forecast",
                                     !.input = <<method>>])
        /\ UNCHANGED <<forecasting_engine, assignment_manager, manager_fields, api_frame>>

\* POST /assignments/generate: forecasting_engine.forecast raises
ForecastFailed ==
    \E c \in Clients :
        /\ Turn(c, "forecast")
        /\ ForecastRaises(coroutines[c].input[1])
        /\ Done(c, "generate", "400")
        /\ UNCHANGED <<forecasting_engine, assignment_manager, manager_fields, api_frame>>

\* POST /assignments/generate: the forecast, to_dataframe, and assign_week
\* up to its loop
Forecast ==
    \E c \in Clients, k \in WeekLengths :
        /\ Turn(c, "forecast")
        /\ ~ForecastRaises(coroutines[c].input[1])
        /\ Len(assignment_history) + k <= ApiDays
        /\ \E df \in ForecastFrames(k) :
              Goes(c, [coroutines[c] EXCEPT !.at = "day", !.df = df])
        /\ UNCHANGED <<forecasting_engine, assignment_manager, manager_fields, api_frame>>

\* assign_staff_for_day, steps 1-5: the Assignment is built from the
\* counters and the flags
DecideDay ==
    \E c \in Clients :
        /\ Turn(c, "day")
        /\ Len(coroutines[c].week_assignments) < Len(coroutines[c].df)
        /\ LET row == coroutines[c].df[Len(coroutines[c].week_assignments) + 1]
           IN  Goes(c, [coroutines[c] EXCEPT
                            !.at = "update_flags",
                            !.decided = <<MakeAssignment(row.date, row.people_required)>>])
        /\ UNCHANGED <<forecasting_engine, assignment_manager, manager_fields, api_frame>>

\* _update_state: the loop over staff_names
UpdateFlags ==
    \E c \in Clients :
        /\ Turn(c, "update_flags")
        /\ staff_worked_yesterday' =
              UpdatedWorkedYesterday(coroutines[c].decided[1].assigned_staff)
        /\ Goes(c, [coroutines[c] EXCEPT !.at = "update_counters"])
        /\ UNCHANGED <<forecasting_engine, assignment_manager, staff_list, staff_names,
                       staff_workdays, assignment_history, api_frame>>

\* _update_state: the loop over assigned_staff
UpdateCounters ==
    \E c \in Clients :
        /\ Turn(c, "update_counters")
        /\ staff_workdays' = UpdatedWorkdays(coroutines[c].decided[1].assigned_staff)
        /\ Goes(c, [coroutines[c] EXCEPT !.at = "append"])
        /\ UNCHANGED <<forecasting_engine, assignment_manager, staff_list, staff_names,
                       staff_worked_yesterday, assignment_history, api_frame>>

\* self.assignment_history.append(assignment), week_assignments.append(assignment)
AppendHistory ==
    \E c \in Clients :
        /\ Turn(c, "append")
        /\ assignment_history' = Append(assignment_history, coroutines[c].decided[1])
        /\ Goes(c, [coroutines[c] EXCEPT
                        !.at = "day",
                        !.week_assignments = Append(@, coroutines[c].decided[1]),
                        !.decided = <<>>])
        /\ UNCHANGED <<forecasting_engine, assignment_manager, staff_list, staff_names,
                       staff_workdays, staff_worked_yesterday, api_frame>>

\* POST /assignments/generate: assign_week returns, the response is built
ReturnAssignments ==
    \E c \in Clients :
        /\ Turn(c, "day")
        /\ Len(coroutines[c].week_assignments) = Len(coroutines[c].df)
        /\ Done(c, "generate", "200")
        /\ UNCHANGED <<forecasting_engine, assignment_manager, manager_fields, api_frame>>

\* GET /assignments/summary
RequestSummary ==
    \E c \in Clients :
        /\ Turn(c, "idle")
        /\ Done(c, "summary", IF assignment_manager = "None" THEN "400" ELSE "200")
        /\ UNCHANGED <<forecasting_engine, assignment_manager, manager_fields, api_frame>>

\* POST /assignments/reset-state
RequestReset ==
    \E c \in Clients :
        /\ Turn(c, "idle")
        /\ IF assignment_manager = "None"
           THEN /\ Done(c, "reset-state", "400")
                /\ UNCHANGED manager_fields
           ELSE /\ Done(c, "reset-state", "200")
                /\ staff_workdays' = [n \in Elems(staff_names) |-> 0]
                /\ staff_worked_yesterday' = [n \in Elems(staff_names) |-> FALSE]
                /\ assignment_history' = <<>>
                /\ UNCHANGED <<staff_list, staff_names>>
        /\ UNCHANGED <<forecasting_engine, assignment_manager, api_frame>>

\* GET /staff/holidays/{date}; valid is whether the date parses
RequestHolidays ==
    \E c \in Clients, valid \in BOOLEAN :
        /\ Turn(c, "idle")
        /\ Done(c, "holidays",
                IF assignment_manager = "None" \/ ~valid THEN "400" ELSE "200")
        /\ UNCHANGED <<forecasting_engine, assignment_manager, manager_fields, api_frame>>

NextApi ==
    \/ Respond
    \/ RequestLoadHistorical
    \/ HistoricalRead
    \/ RequestLoadStaff
    \/ StaffRefused
    \/ StaffRead
    \/ RequestGenerate
    \/ ForecastFailed
    \/ Forecast
    \/ DecideDay
    \/ UpdateFlags
    \/ UpdateCounters
    \/ AppendHistory
    \/ ReturnAssignments
    \/ RequestSummary
    \/ RequestReset
    \/ RequestHolidays

SpecApi == InitApi /\ [][NextApi]_vars

(***************************************************************************)
(* The same code run on a second manager object, whose fields are passed   *)
(* as arguments: manager is a record of the three fields that change.      *)
(***************************************************************************)
\* the fields after __init__(staff)
FreshManager(staff) ==
    [staff_workdays |-> [n \in Elems(StaffNamesOf(staff)) |-> 0],
     staff_worked_yesterday |-> [n \in Elems(StaffNamesOf(staff)) |-> FALSE],
     assignment_history |-> <<>>]

\* assign_staff_for_day(date, people_required) on that manager: its fields
\* after the call
DayOn(staff, manager, date, people_required) ==
    LET names == Elems(StaffNamesOf(staff))
        workdays == manager.staff_workdays
        worked_yesterday == manager.staff_worked_yesterday
        available_staff == AvailableFrom(staff, date)
        eligible_staff ==
            SortByWorkdays(
                SelectSeq(available_staff, LAMBDA name : ~worked_yesterday[name]),
                workdays)
        normal == people_required <= Len(eligible_staff)
        assigned_staff ==
            IF normal
            THEN Slice(eligible_staff, people_required)
            ELSE Slice(SortByWorkdays(available_staff, workdays), people_required)
        assignment ==
            [date |-> date,
             people_required |-> people_required,
             assigned_staff |-> assigned_staff,
             assigned_count |-> Len(assigned_staff),
             overtime |-> ~normal,
             shortage |-> Max(0, people_required - Len(available_staff))]
    IN  [staff_workdays |->
             [k \in DOMAIN workdays |-> workdays[k] + Count(k, assigned_staff)],
         staff_worked_yesterday |->
             [k \in (DOMAIN worked_yesterday) \cup names |->
                 IF k \in names THEN k \in Elems(assigned_staff)
                 ELSE worked_yesterday[k]],
         assignment_history |-> Append(manager.assignment_history, assignment)]

\* the calls assign_staff_for_day(r.date, r.people_required), r running over
\* requests in order
RECURSIVE RunOn(_, _, _)
RunOn(staff, manager, requests) ==
    IF requests = <<>> THEN manager
    ELSE RunOn(staff,
               DayOn(staff, manager, Head(requests).date, Head(requests).people_required),
               Tail(requests))

(***************************************************************************)
(* Vocabulary of the properties.  A member is an entry of the registry,    *)
(* named by its position in staff_list; these definitions are written from *)
(* the registry and the two dicts, not from the operators above.           *)
(***************************************************************************)
Members == 1..Len(staff_list)

NameOf(i) == staff_list[i].name

\* members not on holiday on the date
AvailableMembers(date) == {i \in Members : date \notin staff_list[i].holiday_dates}

\* available members whose worked-yesterday flag is false in the current state
EligibleMembers(date) ==
    {i \in AvailableMembers(date) : staff_worked_yesterday[NameOf(i)] = FALSE}

NamesOf(members) == {NameOf(i) : i \in members}

Days == 1..Len(assignment_history)

LastDay == assignment_history[Len(assignment_history)]

\* a step that processes one day, and the Assignment it produces
DayProcessed == Len(assignment_history') = Len(assignment_history) + 1

NewDay == assignment_history'[Len(assignment_history')]

UniqueNames == Cardinality(Elems(staff_names)) = Len(staff_names)

(***************************************************************************)
(* C1.  Rest rule: in a run with no load_state since construction or the   *)
(* last reset_state, a day whose Assignment has overtime = FALSE selects   *)
(* nobody who is in the selected list of the day processed just before it. *)
(***************************************************************************)
C1_RestRule ==
    loaded_since_reset = FALSE =>
        \A d \in Days :
            (d > 1 /\ assignment_history[d].overtime = FALSE) =>
                Elems(assignment_history[d].assigned_staff)
                    \cap Elems(assignment_history[d - 1].assigned_staff) = {}

\* two consecutive days with work on both, the second without overtime
C1_Witness ==
    /\ loaded_since_reset = FALSE
    /\ Len(assignment_history) = 2
    /\ assignment_history[1].assigned_staff # <<>>
    /\ assignment_history[2].assigned_staff # <<>>
    /\ assignment_history[2].overtime = FALSE

(***************************************************************************)
(* C2.  A day with required headcount R >= 0 has overtime = FALSE exactly  *)
(* when R <= |eligible| (eligible taken in the state before the call), and *)
(* then assigned_count = R and every selected name is an eligible one.     *)
(***************************************************************************)
C2_NormalBranch ==
    [][(DayProcessed /\ NewDay.people_required >= 0) =>
          LET eligible == EligibleMembers(NewDay.date)
          IN  /\ (NewDay.overtime = FALSE)
                    <=> (NewDay.people_required <= Cardinality(eligible))
              /\ NewDay.overtime = FALSE =>
                    /\ NewDay.assigned_count = NewDay.people_required
                    /\ Elems(NewDay.assigned_staff) \subseteq NamesOf(eligible)]_vars

\* a normal day with R >= 1 right after a day on which somebody worked
C2_Witness ==
    /\ Len(assignment_history) = 2
    /\ assignment_history[1].assigned_staff # <<>>
    /\ LastDay.overtime = FALSE
    /\ LastDay.people_required >= 1
    /\ LastDay.assigned_count = LastDay.people_required

(***************************************************************************)
(* C3.  A day with R > |eligible| has overtime = TRUE and assigned_count = *)
(* min(R, |available|), selected from the whole available list (all of it  *)
(* when R >= |available|, yesterday's workers included); the day is        *)
(* recorded and the flags follow its selection even when R > |available|.  *)
(***************************************************************************)
C3_OvertimeBranch ==
    [][(DayProcessed
          /\ NewDay.people_required > Cardinality(EligibleMembers(NewDay.date))) =>
          LET available == AvailableMembers(NewDay.date)
              R == NewDay.people_required
          IN  /\ NewDay.overtime = TRUE
              /\ NewDay.assigned_count = Min(R, Cardinality(available))
              /\ Len(NewDay.assigned_staff) = Min(R, Cardinality(available))
              /\ Elems(NewDay.assigned_staff) \subseteq NamesOf(available)
              /\ R >= Cardinality(available) =>
                    Elems(NewDay.assigned_staff) = NamesOf(available)
              /\ assignment_history' = Append(assignment_history, NewDay)
              /\ \A i \in Members :
                    staff_worked_yesterday'[NameOf(i)]
                        <=> (NameOf(i) \in Elems(NewDay.assigned_staff))]_vars

\* an overtime day that is short of people and reuses a worker of the day before
C3_Witness ==
    /\ Len(assignment_history) = 2
    /\ LastDay.overtime = TRUE
    /\ LastDay.people_required > Cardinality(AvailableMembers(LastDay.date))
    /\ LastDay.assigned_count >= 1
    /\ Elems(LastDay.assigned_staff)
           \cap Elems(assignment_history[1].assigned_staff) # {}

(***************************************************************************)
(* C4.  Every Assignment has shortage = max(0, required - |available|),    *)
(* available being the members not on holiday on its date, in both         *)
(* branches; in the normal branch the shortage is 0.                       *)
(***************************************************************************)
C4_Shortage ==
    \A d \in Days :
        LET a == assignment_history[d]
            short == a.people_required - Cardinality(AvailableMembers(a.date))
        IN  /\ a.shortage = (IF short > 0 THEN short ELSE 0)
            /\ a.overtime = FALSE => a.shortage = 0

\* a history with a short overtime day and a normal day that assigned somebody
C4_Witness ==
    /\ \E d \in Days : /\ assignment_history[d].overtime = TRUE
                       /\ assignment_history[d].shortage > 0
    /\ \E d \in Days : /\ assignment_history[d].overtime = FALSE
                       /\ assignment_history[d].assigned_count > 0

(***************************************************************************)
(* C5.  Fair ranking with stable tie-break.  The pool of a day is the      *)
(* eligible members (normal branch) or the available members (overtime     *)
(* branch); members are ranked by (workday count before the day, registry  *)
(* position).  The selected list is strictly increasing in that rank, and  *)
(* every selected member ranks before every pool member left out.  With    *)
(* several members under one name the selected names are matched to        *)
(* distinct pool members.                                                  *)
(***************************************************************************)
RanksBefore(i, j) ==
    \/ staff_workdays[NameOf(i)] < staff_workdays[NameOf(j)]
    \/ /\ staff_workdays[NameOf(i)] = staff_workdays[NameOf(j)]
       /\ i < j

FairSelection(selected, pool) ==
    \E p \in [1..Len(selected) -> pool] :
        /\ \A k \in 1..Len(selected) : NameOf(p[k]) = selected[k]
        /\ \A k, l \in 1..Len(selected) : k < l => RanksBefore(p[k], p[l])
        /\ \A k \in 1..Len(selected) :
              \A u \in pool \ {p[l] : l \in 1..Len(selected)} : RanksBefore(p[k], u)

C5_FairRanking ==
    [][DayProcessed =>
          FairSelection(NewDay.assigned_staff,
                        IF NewDay.overtime THEN AvailableMembers(NewDay.date)
                        ELSE EligibleMembers(NewDay.date))]_vars

\* a second day on which a tie was broken by position: with distinct names,
\* somebody available was left out whose count equals the count the last
\* selected member had before the day, while counts differ in the registry
C5_Witness ==
    /\ UniqueNames
    /\ Len(assignment_history) = 2
    /\ LastDay.assigned_staff # <<>>
    /\ \E i, j \in Members : staff_workdays[NameOf(i)] # staff_workdays[NameOf(j)]
    /\ \E u \in AvailableMembers(LastDay.date) :
          /\ NameOf(u) \notin Elems(LastDay.assigned_staff)
          /\ staff_workdays[NameOf(u)]
                = staff_workdays[LastDay.assigned_staff[Len(LastDay.assigned_staff)]] - 1

(***************************************************************************)
(* C6.  As stated: in every state with at least one day processed since    *)
(* the last reset, a member's worked-yesterday flag is TRUE exactly when   *)
(* the member's name is in the selected list of the last history entry.    *)
(* It is stated here over the histories of day requests with a required    *)
(* headcount >= 0, where it already fails.                                 *)
(***************************************************************************)
FlagsFollowLastDay ==
    \A i \in Members :
        staff_worked_yesterday[NameOf(i)]
            <=> (NameOf(i) \in Elems(LastDay.assigned_staff))

C6_FlagsFollowLastDay_AsStated ==
    (/\ Len(assignment_history) >= 1
     /\ \A d \in Days : assignment_history[d].people_required >= 0)
        => FlagsFollowLastDay

(***************************************************************************)
(* C6, amended.  The same, in every state with at least one day processed  *)
(* since the last reset and no load_state since the last processed day:    *)
(* the flags are recomputed for all registry members on every processed    *)
(* day, so a member selected two days ago and not on the last day has the  *)
(* flag FALSE.                                                             *)
(***************************************************************************)
C6_FlagsFollowLastDay ==
    (Len(assignment_history) >= 1 /\ loaded_since_day = FALSE) => FlagsFollowLastDay

\* somebody worked two days ago, not on the last day, and has the flag FALSE
C6_Witness ==
    /\ loaded_since_day = FALSE
    /\ Len(assignment_history) = 2
    /\ \E i \in Members :
          /\ NameOf(i) \in Elems(assignment_history[1].assigned_staff)
          /\ NameOf(i) \notin Elems(assignment_history[2].assigned_staff)
          /\ staff_worked_yesterday[NameOf(i)] = FALSE

(***************************************************************************)
(* C7.  Processing one day increments the workday counter of each selected *)
(* member by exactly 1 and leaves every other counter unchanged.           *)
(***************************************************************************)
C7_IncrementByOne ==
    [][DayProcessed =>
          \A k \in DOMAIN staff_workdays :
              staff_workdays'[k] =
                  staff_workdays[k]
                      + (IF k \in Elems(NewDay.assigned_staff) THEN 1 ELSE 0)]_vars

(***************************************************************************)
(* C8.  After N days processed from a freshly constructed or reset manager *)
(* (no load_state in between) every workday counter is a non-negative      *)
(* integer and the counters sum to the sum of assigned_count over the N    *)
(* Assignments.                                                            *)
(***************************************************************************)
RECURSIVE SumOfCounters(_, _)
SumOfCounters(counters, keys) ==
    IF keys = {} THEN 0
    ELSE LET k == CHOOSE x \in keys : TRUE
         IN  counters[k] + SumOfCounters(counters, keys \ {k})

RECURSIVE SumOfAssignedCount(_)
SumOfAssignedCount(history) ==
    IF history = <<>> THEN 0
    ELSE Head(history).assigned_count + SumOfAssignedCount(Tail(history))

C8_CountersSum ==
    loaded_since_reset = FALSE =>
        /\ \A k \in DOMAIN staff_workdays : staff_workdays[k] \in Nat
        /\ SumOfCounters(staff_workdays, DOMAIN staff_workdays)
              = SumOfAssignedCount(assignment_history)

\* two days of work, on which different numbers of people were assigned
C8_Witness ==
    /\ loaded_since_reset = FALSE
    /\ Len(assignment_history) = 2
    /\ assignment_history[1].assigned_count >= 1
    /\ assignment_history[2].assigned_count >= 1
    /\ assignment_history[1].assigned_count # assignment_history[2].assigned_count

(***************************************************************************)
(* C9.  For every processed day, assigned_count equals the length of the   *)
(* selected list and the selected list contains no name twice.             *)
(***************************************************************************)
C9_CountAndNoDuplicates ==
    \A d \in Days :
        LET a == assignment_history[d]
        IN  /\ a.assigned_count = Len(a.assigned_staff)
            /\ \A k, l \in 1..Len(a.assigned_staff) :
                  k # l => a.assigned_staff[k] # a.assigned_staff[l]

(***************************************************************************)
(* C10.  Holidays are a hard constraint: in both branches every selected   *)
(* name is the name of a member who is not on holiday on the Assignment's  *)
(* date.                                                                   *)
(***************************************************************************)
C10_HolidaysRespected ==
    \A d \in Days :
        LET a == assignment_history[d]
        IN  \A k \in 1..Len(a.assigned_staff) :
                \E i \in Members :
                    /\ NameOf(i) = a.assigned_staff[k]
                    /\ a.date \notin staff_list[i].holiday_dates

\* an overtime day short of people on which somebody on holiday was left out
C10_Witness ==
    /\ Len(assignment_history) >= 1
    /\ LastDay.overtime = TRUE
    /\ LastDay.shortage > 0
    /\ LastDay.assigned_count >= 1
    /\ \E i \in Members :
          /\ LastDay.date \in staff_list[i].holiday_dates
          /\ NameOf(i) \notin Elems(LastDay.assigned_staff)

(***************************************************************************)
(* C11: after any sequence of calls, every staff name of the registry is a *)
(* key of staff_workdays and a key of staff_worked_yesterday (a dict holds *)
(* one entry per key).                                                     *)
(***************************************************************************)
C11_OneEntryPerName ==
    \A i \in Members :
        /\ NameOf(i) \in DOMAIN staff_workdays
        /\ NameOf(i) \in DOMAIN staff_worked_yesterday

\* a load_state brought a key that is no staff name, and a day was processed
\* afterwards
C11_Witness ==
    /\ Members # {}
    /\ loaded_since_reset
    /\ last_op = "assign_staff_for_day"
    /\ \/ DOMAIN staff_workdays # Elems(staff_names)
       \/ DOMAIN staff_worked_yesterday # Elems(staff_names)

(***************************************************************************)
(* C12: the history is append-only during a run.  A processed day puts     *)
(* exactly one Assignment at the end of the history and leaves the earlier *)
(* entries as they were, in their order; a call that processes no day      *)
(* leaves the history alone unless it is reset_state; and the length of    *)
(* the history is the number of days processed since __init__ or the last  *)
(* reset_state.                                                            *)
(***************************************************************************)
C12_AppendOnly ==
    [][/\ days_processed' = days_processed + 1 =>
            /\ Len(assignment_history') = Len(assignment_history) + 1
            /\ SubSeq(assignment_history', 1, Len(assignment_history))
                  = assignment_history
       /\ (days_processed' = days_processed /\ last_op' # "reset_state") =>
            assignment_history' = assignment_history
       /\ Len(assignment_history') = days_processed']_vars

\* two different Assignments were appended in one run, with a load_state
\* call in that run
C12_Witness ==
    /\ days_processed >= 2
    /\ loaded_since_reset
    /\ assignment_history[1] # assignment_history[2]

(***************************************************************************)
(* C13: reset_state, called in any state, leaves every member's counter at *)
(* 0 and flag at false and the history empty, and does not change the      *)
(* registry (staff list with its holiday sets, name order).                *)
(***************************************************************************)
C13_ResetEffect ==
    [][last_op' = "reset_state" =>
          /\ \A i \in Members :
                 /\ staff_workdays'[NameOf(i)] = 0
                 /\ staff_worked_yesterday'[NameOf(i)] = FALSE
          /\ assignment_history' = <<>>
          /\ staff_list' = staff_list
          /\ staff_names' = staff_names]_vars

\* reset_state was just called on a manager that had a history or a loaded
\* state
C13_Witness ==
    /\ Members # {}
    /\ last_op = "reset_state"
    /\ reset_dirty

(***************************************************************************)
(* C14: determinism.  After a reset_state made in any state, the           *)
(* Assignments produced for the day requests processed since, and the      *)
(* counters and flags they leave, are those a freshly constructed manager  *)
(* over the same registry gives for the same requests in the same order.   *)
(***************************************************************************)
RequestsOf(history) ==
    [d \in 1..Len(history) |->
        [date |-> history[d].date, people_required |-> history[d].people_required]]

C14_ReplayAfterReset ==
    reset_dirty =>
        LET fresh == RunOn(staff_list, FreshManager(staff_list),
                           RequestsOf(assignment_history))
        IN  /\ assignment_history = fresh.assignment_history
            /\ staff_workdays = fresh.staff_workdays
            /\ staff_worked_yesterday = fresh.staff_worked_yesterday

\* two days replayed after a reset_state that found a used manager, the
\* second one on overtime
C14_Witness ==
    /\ reset_dirty
    /\ Len(assignment_history) >= 2
    /\ assignment_history[2].overtime
    /\ assignment_history[2].assigned_count > 0

(***************************************************************************)
(* C15: reference scenario.  Registry [A, B, C], A unavailable on day 3,   *)
(* fresh state, required 2, 2, 1 on days 1, 2, 3: day 1 selects [A, B]     *)
(* without overtime (counts 1, 1, 0), day 2 selects [C, A] on overtime     *)
(* (counts 2, 1, 1), day 3 selects [B] without overtime (counts 2, 2, 1),  *)
(* each with shortage 0.                                                   *)
(***************************************************************************)
ScenarioRequests ==
    <<[date |-> 1, people_required |-> 2],
      [date |-> 2, people_required |-> 2],
      [date |-> 3, people_required |-> 1]>>

ScenarioSelected == << <<"A", "B">>, <<"C", "A">>, <<"B">> >>

ScenarioOvertime == <<FALSE, TRUE, FALSE>>

ScenarioCounts ==
    <<("A" :> 1) @@ ("B" :> 1) @@ ("C" :> 0),
      ("A" :> 2) @@ ("B" :> 1) @@ ("C" :> 1),
      ("A" :> 2) @@ ("B" :> 2) @@ ("C" :> 1)>>

C15_ReferenceScenario ==
    \A k \in 1..Len(ScenarioRequests) :
        (/\ staff_list = ScenarioStaff
         /\ Len(assignment_history) = k
         /\ RequestsOf(assignment_history) = SubSeq(ScenarioRequests, 1, k)) =>
            /\ assignment_history[k].assigned_staff = ScenarioSelected[k]
            /\ assignment_history[k].assigned_count = Len(ScenarioSelected[k])
            /\ assignment_history[k].overtime = ScenarioOvertime[k]
            /\ assignment_history[k].shortage = 0
            /\ staff_workdays = ScenarioCounts[k]

\* the three days of the scenario have been processed
C15_Witness ==
    /\ staff_list = ScenarioStaff
    /\ RequestsOf(assignment_history) = ScenarioRequests

(***************************************************************************)
(* C16: a day request with a negative people_required is refused: no       *)
(* Assignment is produced for it, by assign_staff_for_day or by            *)
(* assign_week, so the history never holds an Assignment with a negative   *)
(* people_required and assign_week never returns one.                      *)
(***************************************************************************)
C16_NegativeRefused ==
    /\ \A d \in Days : assignment_history[d].people_required >= 0
    /\ \A r \in 1..Len(week_assignments) : week_assignments[r].people_required >= 0

(***************************************************************************)
(* C17: no manager is produced from a staff list in which two members have *)
(* the same name: in a constructed manager, different members have         *)
(* different names.                                                        *)
(***************************************************************************)
C17_DuplicateRefused ==
    \A i, j \in Members : i # j => NameOf(i) # NameOf(j)

(***************************************************************************)
(* C18: assign_week refuses rows that are not in chronological order       *)
(* before it processes any day: a call whose rows are out of order has     *)
(* processed none of them.  (Stated for rows whose people_required is not  *)
(* negative.)                                                              *)
(***************************************************************************)
Chronological(rows) ==
    \A r \in 1..(Len(rows) - 1) : rows[r].date <= rows[r + 1].date

C18_OrderValidated ==
    (raised = "" /\ \A r \in 1..Len(forecast_df) : forecast_df[r].people_required >= 0) =>
        (Chronological(forecast_df) \/ week_assignments = <<>>)

(***************************************************************************)
(* C19: snapshot and restore.  load_state(s) gives every key of s its      *)
(* value in s, leaves the other keys of the two dicts with the values they *)
(* had and leaves the history alone; when s is the dict that get_state     *)
(* returned earlier, before any days and resets, the counter and the flag  *)
(* of every member become their values in s.                               *)
(***************************************************************************)
LoadedOver(after, before, present, loaded) ==
    \A k \in DOMAIN before :
        /\ k \in DOMAIN after
        /\ after[k] = IF present /\ k \in DOMAIN loaded THEN loaded[k] ELSE before[k]

C19_RestoreRoundTrip ==
    [][(last_op' = "load_state" /\ loaded_state' # <<>>) =>
          LET s == loaded_state'[1]
          IN  /\ assignment_history' = assignment_history
              /\ LoadedOver(staff_workdays', staff_workdays,
                            s.has_staff_workdays, s.staff_workdays)
              /\ LoadedOver(staff_worked_yesterday', staff_worked_yesterday,
                            s.has_staff_worked_yesterday, s.staff_worked_yesterday)
              /\ loaded_state' = saved_state =>
                    \A i \in Members :
                        /\ staff_workdays'[NameOf(i)] = s.staff_workdays[NameOf(i)]
                        /\ staff_worked_yesterday'[NameOf(i)]
                              = s.staff_worked_yesterday[NameOf(i)]]_vars

\* the dict kept from get_state was loaded after a reset_state: counters and
\* flags are back, the history is empty
C19_Witness ==
    /\ last_op = "load_state"
    /\ loaded_state # <<>>
    /\ loaded_state = saved_state
    /\ assignment_history = <<>>
    /\ \E i \in Members : staff_workdays[NameOf(i)] > 0
    /\ \E i \in Members : staff_worked_yesterday[NameOf(i)]
    /\ \E i \in Members : ~staff_worked_yesterday[NameOf(i)]

(***************************************************************************)
(* C20: assign_week processes the rows in the order given, from the state  *)
(* in which it is called: when it returns, the history, the counters and   *)
(* the flags are those reached by calling assign_staff_for_day on each row *)
(* in that order from that state, the Assignments returned are the ones    *)
(* those calls produce, and workload_balance is the counters after the     *)
(* last row.                                                               *)
(***************************************************************************)
C20_WeekIsDayByDay ==
    week_result # <<>> =>
        LET result == week_result[1]
            before == call_state[1]
            by_day == RunOn(staff_list, before, forecast_df)
        IN  /\ assignment_history = by_day.assignment_history
            /\ staff_workdays = by_day.staff_workdays
            /\ staff_worked_yesterday = by_day.staff_worked_yesterday
            /\ assignment_history = before.assignment_history \o result.assignments
            /\ RequestsOf(result.assignments) = forecast_df
            /\ result.workload_balance = staff_workdays

\* assign_week has returned from two rows with different requests, the
\* second one served on overtime by staff who worked on the first
C20_Witness ==
    /\ week_result # <<>>
    /\ Len(forecast_df) = 2
    /\ forecast_df[1] # forecast_df[2]
    /\ week_result[1].assignments[2].overtime
    /\ week_result[1].assignments[2].assigned_count > 0

(***************************************************************************)
(* C21: the summary statistics that assign_week returns cover exactly the  *)
(* Assignments of that call: total_demand is the sum of people_required,   *)
(* total_assigned the sum of assigned_count, overtime_days the number of   *)
(* Assignments on overtime, total_shortage the sum of shortage;            *)
(* assignment_rate is total_assigned / total_demand x 100, and 100 when    *)
(* total_demand is 0; average_coverage is 100 when there are no days.      *)
(***************************************************************************)
RECURSIVE TotalOf(_, _)
TotalOf(values, n) == IF n = 0 THEN 0 ELSE TotalOf(values, n - 1) + values[n]

SameRatio(a, b) == a.num * b.den = b.num * a.den

SummaryCounts(result) ==
    LET a == result.assignments
        s == result.summary_stats
        n == Len(a)
    IN  /\ s.total_assignments = n
        /\ s.total_demand = TotalOf([i \in 1..n |-> a[i].people_required], n)
        /\ s.total_assigned = TotalOf([i \in 1..n |-> a[i].assigned_count], n)
        /\ s.overtime_days = Cardinality({i \in 1..n : a[i].overtime})
        /\ s.total_shortage = TotalOf([i \in 1..n |-> a[i].shortage], n)
        /\ n = 0 => SameRatio(s.average_coverage, [num |-> 100, den |-> 1])

C21_SummaryStatistics ==
    week_result # <<>> =>
        LET s == week_result[1].summary_stats
        IN  /\ SummaryCounts(week_result[1])
            /\ IF s.total_demand = 0
               THEN SameRatio(s.assignment_rate, [num |-> 100, den |-> 1])
               ELSE s.assignment_rate.num * s.total_demand
                        = s.total_assigned * 100 * s.assignment_rate.den

(***************************************************************************)
(* C27: assign_week on a forecast that lacks the date column or the        *)
(* people_required column raises ValueError before any day is processed:   *)
(* the counters, the flags and the history are what they were.             *)
(***************************************************************************)
C27_MissingColumnRefused ==
    [][(pc = "idle" /\ last_op' = "assign_week"
            /\ ("date" \notin forecast_columns' \/ "people_required" \notin forecast_columns'))
        => /\ raised' = "ValueError"
           /\ pc' = "idle"
           /\ week_assignments' = <<>>
           /\ staff_workdays' = staff_workdays
           /\ staff_worked_yesterday' = staff_worked_yesterday
           /\ assignment_history' = assignment_history]_vars

\* after a day was processed, a forecast of one row without the
\* people_required column was refused
C27_Witness ==
    /\ raised = "ValueError"
    /\ last_op = "assign_week"
    /\ forecast_columns = {"date", "day_name"}
    /\ Len(forecast_df) = 1
    /\ assignment_history # <<>>
    /\ assignment_history = call_state[1].assignment_history

(***************************************************************************)
(* C23: get_holiday_conflicts(dates) has a key for a date d exactly when   *)
(* at least one member is unavailable on d; the value is the list of the   *)
(* names of exactly the unavailable members, in registry order; a date on  *)
(* which everyone is available has no key.                                 *)
(***************************************************************************)
UnavailableMembers(date) == {i \in Members : date \in staff_list[i].holiday_dates}

C23_HolidayConflicts ==
    (returned # <<>> /\ returned[1].op = "get_holiday_conflicts") =>
        LET conflicts == returned[1].value
            dates == Elems(returned[1].args)
        IN  /\ DOMAIN conflicts = {d \in dates : UnavailableMembers(d) # {}}
            /\ \A d \in DOMAIN conflicts :
                  /\ Len(conflicts[d]) = Cardinality(UnavailableMembers(d))
                  /\ \A i \in UnavailableMembers(d) :
                        conflicts[d][1 + Cardinality({j \in UnavailableMembers(d) : j < i})]
                            = NameOf(i)

\* the query was made for two dates, one with a member on holiday and one
\* without, on a registry with a member on holiday and a member who is not
C23_Witness ==
    /\ returned # <<>>
    /\ returned[1].op = "get_holiday_conflicts"
    /\ Len(returned[1].args) = 2
    /\ \E d \in Elems(returned[1].args) : UnavailableMembers(d) # {}
    /\ \E d \in Elems(returned[1].args) : UnavailableMembers(d) = {}
    /\ \E i, j \in Members : staff_list[i].holiday_dates # staff_list[j].holiday_dates

(***************************************************************************)
(* C24: the queries get_available_staff, get_eligible_staff, get_state,    *)
(* get_staff_info and get_holiday_conflicts leave the counters, the flags  *)
(* and the history unchanged; no operation changes the registry.           *)
(***************************************************************************)
QueryNames ==
    {"get_available_staff", "get_eligible_staff", "get_state", "get_staff_info",
     "get_holiday_conflicts"}

C24_QueriesArePure ==
    [][/\ staff_list' = staff_list
       /\ staff_names' = staff_names
       /\ (returned' # returned /\ returned' # <<>>) =>
             /\ returned'[1].op \in QueryNames
             /\ staff_workdays' = staff_workdays
             /\ staff_worked_yesterday' = staff_worked_yesterday
             /\ assignment_history' = assignment_history]_vars

\* get_eligible_staff was called after a day on which somebody worked
C24_Witness ==
    /\ returned # <<>>
    /\ returned[1].op = "get_eligible_staff"
    /\ assignment_history # <<>>
    /\ \E n \in DOMAIN staff_worked_yesterday : staff_worked_yesterday[n]
    /\ returned[1].value # returned[1].args

(***************************************************************************)
(* C25: for every Assignment with people_required >= 0, assigned_count +   *)
(* shortage = people_required; hence assigned_count never exceeds          *)
(* people_required, and the Assignment is fully staffed exactly when       *)
(* assigned_count = people_required.                                       *)
(***************************************************************************)
C25_CountPlusShortage ==
    \A d \in Days :
        LET a == assignment_history[d]
        IN  a.people_required >= 0 =>
              /\ a.assigned_count + a.shortage = a.people_required
              /\ a.assigned_count <= a.people_required
              /\ is_fully_staffed(a) <=> (a.assigned_count = a.people_required)

\* a history with a day that is short of staff, of which some were assigned,
\* and a fully staffed day with staff assigned
C25_Witness ==
    /\ \E d \in Days :
          /\ assignment_history[d].shortage > 0
          /\ assignment_history[d].assigned_count > 0
    /\ \E d \in Days :
          /\ is_fully_staffed(assignment_history[d])
          /\ assignment_history[d].assigned_count > 0

(***************************************************************************)
(* C26: a day with people_required = 0 is a normal day: nobody is          *)
(* selected, overtime is false, the shortage is 0, the counters are        *)
(* unchanged, the flag of every member becomes false, and its Assignment   *)
(* is appended to the history.                                             *)
(***************************************************************************)
C26_ZeroDay ==
    [][(DayProcessed /\ NewDay.people_required = 0) =>
          /\ NewDay.assigned_staff = <<>>
          /\ NewDay.assigned_count = 0
          /\ NewDay.overtime = FALSE
          /\ NewDay.shortage = 0
          /\ staff_workdays' = staff_workdays
          /\ \A i \in Members : staff_worked_yesterday'[NameOf(i)] = FALSE
          /\ assignment_history' = Append(assignment_history, NewDay)]_vars

\* a day with people_required = 0 right after a day on which everybody worked
C26_Witness ==
    /\ Len(assignment_history) = 2
    /\ Members # {}
    /\ assignment_history[1].assigned_count = Len(staff_list)
    /\ LastDay.people_required = 0
    /\ \A i \in Members : staff_workdays[NameOf(i)] > 0

(***************************************************************************)
(* C28: the values handed out are snapshots, not live views: the dicts     *)
(* that get_state returned, the workload_balance that assign_week returned *)
(* and the selected list stored in an Assignment read the same after later *)
(* days are processed and after the state is reset.                        *)
(***************************************************************************)
C28_HandedOutSnapshots ==
    [][/\ (saved_state # <<>> /\ saved_state' # <<>>) => SeenState' = SeenState
       /\ (week_result # <<>> /\ week_result' # <<>>) =>
             /\ SeenBalance' = SeenBalance
             /\ week_result'[1].assignments = week_result[1].assignments
       /\ \A d \in Days :
             d <= Len(assignment_history') =>
                assignment_history'[d].assigned_staff = assignment_history[d].assigned_staff]_vars

\* the client holds the result of a week of one day and the dict get_state
\* returned after it; a later day changed the counters and the flags
C28_Witness ==
    /\ saved_state # <<>>
    /\ week_result # <<>>
    /\ Len(week_result[1].assignments) = 1
    /\ last_op = "assign_staff_for_day"
    /\ SeenState.staff_workdays # staff_workdays
    /\ SeenState.staff_worked_yesterday # staff_worked_yesterday
    /\ SeenBalance # staff_workdays
    /\ week_result[1].assignments[1].assigned_staff # LastDay.assigned_staff

(***************************************************************************)
(* C22: when several requests operate concurrently on the API's one        *)
(* manager, the read of the counters and flags for a day's decision and    *)
(* the update that follows are one critical section: while a request is    *)
(* between its read and the end of its update, no other request takes a    *)
(* step (no assignment, no reset, no read of the partly updated state),    *)
(* and the day is written as it was decided from the current counters.     *)
(***************************************************************************)
DayPositions == {"update_flags", "update_counters", "append"}

C22_DayIsCriticalSection ==
    [][\A c \in Clients :
          coroutines[c].at \in DayPositions =>
             /\ \A o \in Clients \ {c} : coroutines'[o] = coroutines[o]
             /\ coroutines[c].at = "update_flags" =>
                   LET row == coroutines[c].df[Len(coroutines[c].week_assignments) + 1]
                   IN  coroutines[c].decided[1]
                          = MakeAssignment(row.date, row.people_required)]_vars

\* a request is between the two loops of _update_state of its second day,
\* with somebody assigned, while another request is in flight at its await
C22_Witness ==
    \E c \in Clients :
        /\ coroutines[c].at = "update_counters"
        /\ coroutines[c].decided[1].assigned_count > 0
        /\ assignment_history # <<>>
        /\ \E o \in Clients \ {c} : coroutines[o].at = "await_read"

(***************************************************************************)
(* C29: in the API, in any order of requests, /assignments/generate fails  *)
(* unless both historical data and staff data are loaded, and              *)
(* /assignments/summary, /assignments/reset-state and /staff/holidays fail *)
(* unless staff data is loaded; a request that fails this way, or whose    *)
(* forecast step fails, leaves the manager's counters, flags and history   *)
(* unchanged.                                                              *)
(***************************************************************************)
Finished(c) == coroutines[c].at # "done" /\ coroutines'[c].at = "done"

ManagerEndpoints == {"generate", "summary", "reset-state", "holidays"}

C29_GatedOnLoadedData ==
    [][\A c \in Clients :
          LET after == coroutines'[c]
          IN  /\ (/\ Finished(c)
                  /\ after.endpoint = "generate"
                  /\ ~(forecasting_engine = "loaded" /\ assignment_manager = "manager"))
                    => after.status = "400"
              /\ (/\ Finished(c)
                  /\ after.endpoint \in ManagerEndpoints \ {"generate"}
                  /\ assignment_manager = "None")
                    => after.status = "400"
              /\ (\/ Finished(c) /\ after.endpoint \in ManagerEndpoints /\ after.status = "400"
                  \/ coroutines[c].at = "idle" /\ after.at = "forecast")
                    => /\ staff_workdays' = staff_workdays
                       /\ staff_worked_yesterday' = staff_worked_yesterday
                       /\ assignment_history' = assignment_history]_vars

\* with both data loaded and a day in the history, a generate request for a
\* method that is not supported has failed
C29_Witness ==
    \E c \in Clients :
        /\ coroutines[c].at = "done"
        /\ coroutines[c].endpoint = "generate"
        /\ coroutines[c].status = "400"
        /\ forecasting_engine = "loaded"
        /\ assignment_manager = "manager"
        /\ assignment_history # <<>>
        /\ \E n \in DOMAIN staff_workdays : staff_workdays[n] > 0

====
